---------------------------- MODULE Spec2Model ----------------------------
(***************************************************************************)
(* A model of the VirtualBox 4.2 driver (package common, VBox42Driver):    *)
(* the command executor, the retried Delete, the version resolver, the     *)
(* running-state query and the snapshot-listing parser.                    *)
(*                                                                         *)
(* Go strings are sequences of one-character strings, so that trimming,    *)
(* splitting and pattern matching are computed and not assumed.            *)
(***************************************************************************)
EXTENDS Integers, Sequences, FiniteSets, TLC

VARIABLES
    execPc,     \* VBoxManageWithOutput: "idle" | "returned"
    execRun,    \* what cmd.Run() did: [err, stdout, stderr]
    execRet,    \* what VBoxManageWithOutput returned: [out, err]
    VBoxManagePath, \* the driver's field: the path of the tool
    invPc,      \* of each of two invocations: "idle" | "run" | "returned"
    invRun,     \* what its subprocess does: [err, stdout, stderr]
    invLeft,    \* what its subprocess has still to write: [stdout, stderr]
    buffers,    \* the bytes.Buffer pairs: [stdout, stderr] of each
    invOverlap, \* another invocation was in progress when this one returned
    invRet,     \* what the invocation returned: [out, err]
    delPc,      \* Delete: "idle" | "try" | "wait" | "returned"
    delLog,     \* the error of every unregistervm invocation of this Delete
    delDelay,   \* the retry policy's current delay, in seconds
    delWaited,  \* the seconds this Delete has slept between attempts
    delRet,     \* what Delete returned: [outcome, err]
    cancelSignal, \* the external cancellation signal has fired
    verPc,      \* Version / CreateSATAController: "idle" | "returned"
    verOp,      \* which of the two was called
    verRun,     \* what the "--version" query did: [err, stdout]
    verRet,     \* what Version returned: [version, err]
    sataPortCount, \* CreateSATAController's portcount argument
    sataRet,    \* the error CreateSATAController returned
    verIssued,  \* the argument lists of the commands run, in order
    infoPc,     \* IsRunning: "idle" | "returned"
    infoRun,    \* what the showvminfo query did: [err, stdout]
    infoRet,    \* what IsRunning returned: [running, err]
    isoPc,      \* Iso: "idle" | "returned"
    isoRun,     \* what the "list systemproperties" query did: [err, stdout]
    isoRet,     \* what Iso returned: [isoname, err]
    stopPc,     \* Stop: "idle" | "poweroff" | "sleep" | "returned"
    stopIssued, \* the argument lists of the commands Stop has run, in order
    stopRun,    \* what the power-off command did: [err, stdout, stderr]
    stopCmdErr, \* the error VBoxManage returned for the power-off command
    stopOffAt,  \* the time at which the power-off command returned
    stopWake,   \* the time at which Stop's sleep ends
    stopRet,    \* the error Stop returned
    now,        \* the time, in seconds since Stop was called
    snapPc,     \* LoadSnapshots: "idle" | "scan" | "returned" | "panic"
    snapOp,     \* the snapshot operation called
    snapVm,     \* its VM name argument
    snapArg,    \* its snapshot argument (SetSnapshot, DeleteSnapshot), or nil
    snapIssued, \* the argument lists of the commands it has run, in order
    cmdRet,     \* the error CreateSnapshot, SetSnapshot or DeleteSnapshot returned
    snapRun,    \* what the snapshot list command did
    snapText,   \* the lines of a plain-text output still to scan
    snapLines,  \* the lines with a '=' scanned so far
    snapSkipped, \* the number of lines without '=' scanned so far
    nodes,      \* the VBoxSnapshot values allocated, in order
    rootNode,   \* LoadSnapshots: rootNode
    node,       \* LoadSnapshots: node
    currentIndicator, \* LoadSnapshots: currentIndicator
    parentStack, \* LoadSnapshots: parentStack, top last
    snapPanic,  \* why LoadSnapshots aborted, "none" if it did not
    snapRet,    \* what LoadSnapshots returned: [sn, err]
    hasRet      \* what HasSnapshots returned: [has, err]

execVars == <<execPc, execRun, execRet>>

invVars ==
    <<VBoxManagePath, invPc, invRun, invLeft, buffers, invOverlap, invRet>>
delVars == <<delPc, delLog, delDelay, delWaited, delRet, cancelSignal>>

verVars == <<verPc, verOp, verRun, verRet, sataPortCount, sataRet, verIssued>>

infoVars == <<infoPc, infoRun, infoRet>>

isoVars == <<isoPc, isoRun, isoRet>>

stopVars ==
    <<stopPc, stopIssued, stopRun, stopCmdErr, stopOffAt, stopWake, stopRet, now>>

snapVars ==
    <<snapPc, snapOp, snapVm, snapArg, snapIssued, cmdRet, snapRun, snapText,
      snapLines, snapSkipped, nodes, rootNode, node, currentIndicator,
      parentStack, snapPanic, snapRet, hasRet>>

vars == <<execVars, invVars, delVars, verVars, infoVars, isoVars, stopVars, snapVars>>

\* what an operation of one component leaves alone: the other components
exceptExec == <<invVars, delVars, verVars, infoVars, isoVars, stopVars, snapVars>>
exceptInv == <<execVars, delVars, verVars, infoVars, isoVars, stopVars, snapVars>>
exceptDel == <<execVars, invVars, verVars, infoVars, isoVars, stopVars, snapVars>>
exceptVer == <<execVars, invVars, delVars, infoVars, isoVars, stopVars, snapVars>>
exceptInfo == <<execVars, invVars, delVars, verVars, isoVars, stopVars, snapVars>>
exceptIso == <<execVars, invVars, delVars, verVars, infoVars, stopVars, snapVars>>
exceptStop == <<execVars, invVars, delVars, verVars, infoVars, isoVars, snapVars>>
exceptSnap == <<execVars, invVars, delVars, verVars, infoVars, isoVars, stopVars>>

---------------------------------------------------------------------------
(* Strings *)

sVBoxManage ==
    <<"V", "B", "o", "x", "M", "a", "n", "a", "g", "e">>
sErrorBanner ==
    <<":", " ", "e", "r", "r", "o", "r", ":">>
sErrPrefix ==
    <<"V", "B", "o", "x", "M", "a", "n", "a", "g", "e", " ", "e", "r", "r", "o", "r", ":", " ">>
sDotExe ==
    <<".", "e", "x", "e">>
sWarnBanner ==
    <<":", " ", "w", "a", "r", "n", "i", "n", "g", ":">>
sBoom ==
    <<" ", "b", "o", "o", "m", "\n">>
sOk ==
    <<" ", "o", "k", "\n">>
sExecNotFound ==
    <<"e", "x", "e", "c", ":", " ", "n", "o", "t", " ", "f", "o", "u", "n", "d">>

Lower ==
    {"a", "b", "c", "d", "e", "f", "g", "h", "i", "j", "k", "l", "m", "n", "o", "p", "q", "r", "s", "t", "u", "v", "w", "x", "y", "z"}
Digits ==
    {"0", "1", "2", "3", "4", "5", "6", "7", "8", "9"}

\* unicode.IsSpace, restricted to the characters the inputs use
WhiteSpace == {" ", "\t", "\n", "\r"}

\* s[i..], Go's s[i-1:]
Drop(s, i) == SubSeq(s, i, Len(s))

\* strings.HasPrefix(s, p)
HasPrefix(s, p) == Len(p) <= Len(s) /\ SubSeq(s, 1, Len(p)) = p

\* strings.TrimSpace: cut white space from the left, then from the right
RECURSIVE TrimLeftSpace(_)
TrimLeftSpace(s) ==
    IF s # <<>> /\ Head(s) \in WhiteSpace THEN TrimLeftSpace(Tail(s)) ELSE s

RECURSIVE TrimRightSpace(_)
TrimRightSpace(s) ==
    IF s # <<>> /\ s[Len(s)] \in WhiteSpace
    THEN TrimRightSpace(SubSeq(s, 1, Len(s) - 1))
    ELSE s

TrimSpace(s) == TrimRightSpace(TrimLeftSpace(s))

\* strings.Contains(s, sub)
Contains(s, sub) == \E i \in 1..(Len(s) + 1) : HasPrefix(Drop(s, i), sub)

---------------------------------------------------------------------------
(* Errors: Go's nil error, an error made by fmt.Errorf, and the error of a *)
(* process that could not be started (exec.Error, os.PathError).           *)

NoErr == [type |-> "nil", msg |-> <<>>]
Errorf(msg) == [type |-> "fmt", msg |-> msg]
LaunchErr(msg) == [type |-> "exec", msg |-> msg]

---------------------------------------------------------------------------
(* Command Executor: VBoxManageWithOutput *)

\* the character class [.a-z] of the banner pattern
BannerSuffixChar(c) == c = "." \/ c \in Lower

\* the least number of [.a-z] characters the pattern needs after the tool
\* name: "+?" is one or more
BannerMinSuffix == 1

\* regexp "VBoxManage([.a-z]+?): error:" matched at offset i of s
BannerAt(s, i) ==
    /\ HasPrefix(Drop(s, i), sVBoxManage)
    /\ \E k \in BannerMinSuffix..Len(s) :
          /\ i + Len(sVBoxManage) + k - 1 <= Len(s)
          /\ \A j \in 1..k : BannerSuffixChar(s[i + Len(sVBoxManage) + j - 1])
          /\ HasPrefix(Drop(s, i + Len(sVBoxManage) + k), sErrorBanner)

\* regexp.MatchString("VBoxManage([.a-z]+?): error:", s): unanchored
MatchBanner(s) == \E i \in 1..Len(s) : BannerAt(s, i)

\* the message without the tool's report
VBoxManageErrorNoReport(stderrString) == Errorf(sErrPrefix)

\* fmt.Errorf("VBoxManage error: %s", stderrString)
VBoxManageError(stderrString) == Errorf(sErrPrefix \o stderrString)

\* The body of VBoxManageWithOutput after cmd.Run() returned run.err with
\* run.stdout and run.stderr in the two buffers.
VBoxManageWithOutput(run) ==
    LET stdoutString == TrimSpace(run.stdout)
        stderrString == TrimSpace(run.stderr)
        err1 == IF run.err.type = "ExitError"
                THEN VBoxManageError(stderrString)
                ELSE run.err
        err2 == IF err1.type = "nil" /\ MatchBanner(stderrString)
                THEN VBoxManageError(stderrString)
                ELSE err1
    IN  [out |-> stdoutString, err |-> err2]

\* cmd.Run() results: a zero exit, a non-zero exit (exec.ExitError), or the
\* process was never started, in which case both buffers stay empty.
ExitZero == NoErr
ExitNonZero == [type |-> "ExitError", msg |-> <<>>]

StderrTexts ==
    { pre \o sVBoxManage \o suf \o ban \o post :
        pre \in {<<>>, <<"\n">>},
        suf \in {<<>>, sDotExe, <<"X">>, <<".", "a">>},
        ban \in {sErrorBanner, sWarnBanner},
        post \in {<<>>, sBoom} }
    \cup {<<>>, sBoom}

StdoutTexts == {<<>>, sOk, <<"a", " ", "b">>}

ExecRuns ==
    [err : {ExitZero, ExitNonZero}, stdout : StdoutTexts, stderr : StderrTexts]
    \cup [err : {LaunchErr(sExecNotFound)}, stdout : {<<>>}, stderr : {<<>>}]

NoRun == [err |-> NoErr, stdout |-> <<>>, stderr |-> <<>>]
NoRet == [out |-> <<>>, err |-> NoErr]

ExecInit ==
    /\ execPc = "idle"
    /\ execRun = NoRun
    /\ execRet = NoRet

\* one invocation of VBoxManageWithOutput, from exec.Command to return
ExecInvoke ==
    /\ execPc = "idle"
    /\ \E run \in ExecRuns :
          /\ execRun' = run
          /\ execRet' = VBoxManageWithOutput(run)
    /\ execPc' = "returned"
    /\ UNCHANGED exceptExec

\* the caller has taken the result; the driver is ready for the next call
ExecDone ==
    /\ execPc = "returned"
    /\ execPc' = "idle"
    /\ execRun' = NoRun
    /\ execRet' = NoRet
    /\ UNCHANGED exceptExec

NextExec == ExecInvoke \/ ExecDone

---------------------------------------------------------------------------
(* Two invocations of VBoxManageWithOutput on one driver, step by step:    *)
(* each starts its subprocess, the subprocess writes its output to the     *)
(* buffers cmd.Stdout and cmd.Stderr point to, cmd.Run() returns and the   *)
(* result is made from what the buffers hold.                              *)

Invocations == {1, 2}

\* the two streams of a subprocess
Streams == {"stdout", "stderr"}

\* one pair of buffers for the driver
BufferOfDriver(i) == 1

\* var stdout, stderr bytes.Buffer: locals, one pair for each invocation
BufferOf(i) == i

EmptyBuffers == [stdout |-> <<>>, stderr |-> <<>>]

\* what the subprocess of an invocation can do
InvRuns ==
    { [err |-> ExitZero, stdout |-> sOk, stderr |-> <<>>],
      [err |-> ExitZero, stdout |-> <<"a", " ", "b">>,
       stderr |-> sVBoxManage \o sDotExe \o sErrorBanner \o sBoom],
      [err |-> ExitNonZero, stdout |-> <<>>, stderr |-> sBoom],
      [err |-> LaunchErr(sExecNotFound), stdout |-> <<>>, stderr |-> <<>>] }

InvInit ==
    /\ VBoxManagePath = sVBoxManage
    /\ invPc = [i \in Invocations |-> "idle"]
    /\ invRun = [i \in Invocations |-> NoRun]
    /\ invLeft = [i \in Invocations |-> EmptyBuffers]
    /\ buffers = [i \in Invocations |-> EmptyBuffers]
    /\ invOverlap = [i \in Invocations |-> FALSE]
    /\ invRet = [i \in Invocations |-> NoRet]

\* an invocation declares its buffers and starts the tool at
\* d.VBoxManagePath; a subprocess that did not start writes nothing
InvokeStart ==
    /\ \E i \in Invocations, run \in InvRuns :
          /\ invPc[i] = "idle"
          /\ invPc' = [invPc EXCEPT ![i] = "run"]
          /\ invRun' = [invRun EXCEPT ![i] = run]
          /\ invLeft' = [invLeft EXCEPT
                           ![i] = [stdout |-> run.stdout, stderr |-> run.stderr]]
          /\ buffers' = [buffers EXCEPT ![BufferOf(i)] = EmptyBuffers]
    /\ UNCHANGED <<VBoxManagePath, invOverlap, invRet, exceptInv>>

\* the subprocess writes what it has for one of its streams
SubprocessWrite ==
    /\ \E i \in Invocations, stream \in Streams :
          /\ invPc[i] = "run"
          /\ invLeft[i][stream] # <<>>
          /\ buffers' = [buffers EXCEPT
                           ![BufferOf(i)][stream] = @ \o invLeft[i][stream]]
          /\ invLeft' = [invLeft EXCEPT ![i][stream] = <<>>]
    /\ UNCHANGED <<VBoxManagePath, invPc, invRun, invOverlap, invRet, exceptInv>>

\* cmd.Run() returns, the subprocess having ended: the rest of
\* VBoxManageWithOutput, on what the buffers hold
InvokeReturn ==
    /\ \E i \in Invocations :
          /\ invPc[i] = "run"
          /\ invLeft[i] = EmptyBuffers
          /\ invPc' = [invPc EXCEPT ![i] = "returned"]
          /\ invOverlap' = [invOverlap EXCEPT
                              ![i] = \E j \in Invocations \ {i} : invPc[j] = "run"]
          /\ invRet' = [invRet EXCEPT
                          ![i] = VBoxManageWithOutput(
                                     [err |-> invRun[i].err,
                                      stdout |-> buffers[BufferOf(i)].stdout,
                                      stderr |-> buffers[BufferOf(i)].stderr])]
    /\ UNCHANGED <<VBoxManagePath, invRun, invLeft, buffers, exceptInv>>

\* the caller has taken the result; the buffers are no longer in use
InvokeDone ==
    /\ \E i \in Invocations :
          /\ invPc[i] = "returned"
          /\ invPc' = [invPc EXCEPT ![i] = "idle"]
          /\ invRun' = [invRun EXCEPT ![i] = NoRun]
          /\ invOverlap' = [invOverlap EXCEPT ![i] = FALSE]
          /\ invRet' = [invRet EXCEPT ![i] = NoRet]
          /\ buffers' = [buffers EXCEPT ![BufferOf(i)] = EmptyBuffers]
    /\ UNCHANGED <<VBoxManagePath, invLeft, exceptInv>>

NextInv ==
    \/ InvokeStart
    \/ SubprocessWrite
    \/ InvokeReturn
    \/ InvokeDone

---------------------------------------------------------------------------
(* Retry Policy (package retry, not among the sources: modelled from the   *)
(* design's section 4.2) and Delete, which runs under it.                  *)

sLocked ==
    <<"l", "o", "c", "k", "e", "d">>

\* one attempt fewer
DeleteTriesFewer == 4

\* Delete: Tries
DeleteTries == 5
\* Delete: InitialBackoff, MaxBackoff (seconds) and Multiplier
InitialBackoff == 1
MaxBackoff == 1
Multiplier == 2

Min(a, b) == IF a <= b THEN a ELSE b

\* the delay that follows delay d: multiplied, capped at the maximum
NextDelay(d) == Min(d * Multiplier, MaxBackoff)

\* ctx := context.TODO(): a context that is never cancelled and that no
\* caller can reach
DeleteCtx == "TODO"

\* ctx.Done() has fired: never for context.TODO(), with the external signal
\* for a context derived from it
CtxDone(ctx, signal) == IF ctx = "TODO" THEN FALSE ELSE signal

\* the policy's outcomes: the operation succeeded, every attempt failed
\* (the last error is returned), or the wait was cancelled
RetryOk == [outcome |-> "ok", err |-> NoErr]
RetryExhausted(err) == [outcome |-> "error", err |-> err]
RetryCancelled == [outcome |-> "cancelled", err |-> Errorf(<<"c", "a", "n", "c", "e", "l", "e", "d">>)]
NoDelRet == [outcome |-> "none", err |-> NoErr]

\* what "unregistervm <name> --delete" can do: succeed, fail with the VM
\* still locked by its session, fail otherwise, report an error with a zero
\* exit code, or not start at all
DeleteRuns ==
    { [err |-> ExitZero, stdout |-> <<>>, stderr |-> <<>>],
      [err |-> ExitNonZero, stdout |-> <<>>, stderr |-> sLocked],
      [err |-> ExitNonZero, stdout |-> sOk, stderr |-> sBoom],
      [err |-> ExitZero, stdout |-> <<>>,
       stderr |-> sVBoxManage \o sDotExe \o sErrorBanner \o sBoom],
      [err |-> LaunchErr(sExecNotFound), stdout |-> <<>>, stderr |-> <<>>] }

\* VBoxManage(args...): VBoxManageWithOutput with the output dropped
VBoxManage(run) == VBoxManageWithOutput(run).err

DelInit ==
    /\ delPc = "idle"
    /\ delLog = <<>>
    /\ delDelay = 0
    /\ delWaited = 0
    /\ delRet = NoDelRet
    /\ cancelSignal = FALSE

\* Delete(name) is called: the policy starts with its initial delay
DeleteCall ==
    /\ delPc = "idle"
    /\ delPc' = "try"
    /\ delLog' = <<>>
    /\ delDelay' = Min(InitialBackoff, MaxBackoff)
    /\ delWaited' = 0
    /\ delRet' = NoDelRet
    /\ UNCHANGED <<cancelSignal, exceptDel>>

\* one attempt: d.VBoxManage("unregistervm", name, "--delete")
DeleteAttempt ==
    /\ delPc = "try"
    /\ \E run \in DeleteRuns :
          LET err == VBoxManage(run)
              log == Append(delLog, err)
          IN  /\ delLog' = log
              /\ IF err.type = "nil"
                 THEN delPc' = "returned" /\ delRet' = RetryOk
                 ELSE IF Len(log) >= DeleteTries
                 THEN delPc' = "returned" /\ delRet' = RetryExhausted(err)
                 ELSE delPc' = "wait" /\ delRet' = delRet
    /\ UNCHANGED <<delDelay, delWaited, cancelSignal, exceptDel>>

\* between two attempts: stop if the context is done, else sleep the delay
DeleteWait ==
    /\ delPc = "wait"
    /\ IF CtxDone(DeleteCtx, cancelSignal)
       THEN /\ delPc' = "returned"
            /\ delRet' = RetryCancelled
            /\ UNCHANGED <<delDelay, delWaited>>
       ELSE /\ delPc' = "try"
            /\ delWaited' = delWaited + delDelay
            /\ delDelay' = NextDelay(delDelay)
            /\ delRet' = delRet
    /\ UNCHANGED <<delLog, cancelSignal, exceptDel>>

\* the caller has taken Delete's result
DeleteDone ==
    /\ delPc = "returned"
    /\ delPc' = "idle"
    /\ delLog' = <<>>
    /\ delDelay' = 0
    /\ delWaited' = 0
    /\ delRet' = NoDelRet
    /\ cancelSignal' = FALSE
    /\ UNCHANGED exceptDel

\* the environment fires the external cancellation signal
Cancel ==
    /\ delPc # "idle"
    /\ ~cancelSignal
    /\ cancelSignal' = TRUE
    /\ UNCHANGED <<delPc, delLog, delDelay, delWaited, delRet, exceptDel>>

NextDelete ==
    \/ DeleteCall
    \/ DeleteAttempt
    \/ DeleteWait
    \/ DeleteDone
    \/ Cancel

---------------------------------------------------------------------------
(* Version Resolver: Version, and CreateSATAController, which branches on  *)
(* it.                                                                     *)

sDigits ==
    <<"0", "1", "2", "3", "4", "5", "6", "7", "8", "9">>
sVboxdrv ==
    <<"v", "b", "o", "x", "d", "r", "v">>
sNotSetup ==
    <<"V", "i", "r", "t", "u", "a", "l", "B", "o", "x", " ", "i", "s", " ", "n", "o", "t", " ", "p", "r", "o", "p", "e", "r", "l", "y", " ", "s", "e", "t", "u", "p", ":", " ">>
sNoVersion ==
    <<"N", "o", " ", "v", "e", "r", "s", "i", "o", "n", " ", "f", "o", "u", "n", "d", ":", " ">>
sMalformed ==
    <<"M", "a", "l", "f", "o", "r", "m", "e", "d", " ", "v", "e", "r", "s", "i", "o", "n", ":", " ">>
sRC1 ==
    <<"_", "R", "C", "1">>
sOSEr2 ==
    <<"_", "O", "S", "E", "r", "2">>
sBeta ==
    <<"_", "B", "E", "T", "A">>
sR98 ==
    <<"r", "9", "8">>
sWarnDrv ==
    <<"W", "A", "R", "N", "I", "N", "G", ":", " ", "v", "b", "o", "x", "d", "r", "v", "\n">>
sDashVersion ==
    <<"-", "-", "v", "e", "r", "s", "i", "o", "n">>
sStoragectl ==
    <<"s", "t", "o", "r", "a", "g", "e", "c", "t", "l">>
sDashName ==
    <<"-", "-", "n", "a", "m", "e">>
sDashAdd ==
    <<"-", "-", "a", "d", "d">>
sSata ==
    <<"s", "a", "t", "a">>
sPortCount ==
    <<"-", "-", "p", "o", "r", "t", "c", "o", "u", "n", "t">>
sSataPortCount ==
    <<"-", "-", "s", "a", "t", "a", "p", "o", "r", "t", "c", "o", "u", "n", "t">>
sVm ==
    <<"v", "m">>
sCtl ==
    <<"c", "t", "l">>
sFourThree ==
    <<"4", ".", "3">>

\* the marker only when the output starts with it
HasSetupMarkerAtStart(versionOutput) == HasPrefix(versionOutput, sVboxdrv)

\* strings.Contains(versionOutput, "vboxdrv")
HasSetupMarker(versionOutput) == Contains(versionOutput, sVboxdrv)

\* the class without the dot
VersionCharDigitsOnly(c) == c \in Digits

\* the character class [.0-9] of versionRe
VersionChar(c) == c = "." \/ c \in Digits

\* the text "^([.0-9]+)" captures: the longest leading run of the class
RECURSIVE LeadingRun(_)
LeadingRun(s) ==
    IF s # <<>> /\ VersionChar(Head(s))
    THEN <<Head(s)>> \o LeadingRun(Tail(s))
    ELSE <<>>

\* Version() after cmd.Run() returned run.err with run.stdout in the buffer
Version(run) ==
    LET versionOutput == TrimSpace(run.stdout)
        match == LeadingRun(versionOutput)
    IN  IF run.err.type # "nil"
        THEN [version |-> <<>>, err |-> run.err]
        ELSE IF HasSetupMarker(versionOutput)
        THEN [version |-> <<>>, err |-> Errorf(sNotSetup \o versionOutput)]
        ELSE IF match = <<>>
        THEN [version |-> <<>>, err |-> Errorf(sNoVersion \o versionOutput)]
        ELSE [version |-> match, err |-> NoErr]

\* strings.Split(s, c) for a one-character separator
RECURSIVE Split(_, _)
Split(s, c) ==
    IF \E i \in 1..Len(s) : s[i] = c
    THEN LET i == CHOOSE k \in 1..Len(s) :
                      s[k] = c /\ \A j \in 1..(k - 1) : s[j] # c
         IN  <<SubSeq(s, 1, i - 1)>> \o Split(Drop(s, i + 1), c)
    ELSE <<s>>

DigitValue(c) == CHOOSE n \in 0..9 : sDigits[n + 1] = c

\* strconv.ParseInt of a run of digits
RECURSIVE Atoi(_)
Atoi(s) ==
    IF s = <<>> THEN 0
    ELSE Atoi(SubSeq(s, 1, Len(s) - 1)) * 10 + DigitValue(s[Len(s)])

\* strconv.Itoa of a natural number
RECURSIVE Itoa(_)
Itoa(n) ==
    IF n < 10 THEN <<sDigits[n + 1]>>
    ELSE Itoa(n \div 10) \o <<sDigits[(n % 10) + 1]>>

\* go-version pads every version to three segments
VersionSegments == 3

\* versionUtil.NewVersion of a text of digits and dots: numeric segments
\* separated by single dots, padded with zeros; anything else is malformed
NewVersion(v) ==
    LET parts == Split(v, ".")
        ok == \A i \in 1..Len(parts) :
                  parts[i] # <<>> /\ \A j \in 1..Len(parts[i]) : parts[i][j] \in Digits
        n == IF Len(parts) < VersionSegments THEN VersionSegments ELSE Len(parts)
    IN  [ok |-> ok,
         segments |-> IF ok
                      THEN [i \in 1..n |-> IF i <= Len(parts) THEN Atoi(parts[i]) ELSE 0]
                      ELSE <<>>]

Segment(a, i) == IF i <= Len(a) THEN a[i] ELSE 0

\* decimal texts in dictionary order: "10" before "3"
TextLess(x, y) ==
    \E i \in 1..Len(y) :
        /\ \A j \in 1..(i - 1) : j <= Len(x) /\ x[j] = y[j]
        /\ i > Len(x) \/ DigitValue(x[i]) < DigitValue(y[i])

\* the segments compared as texts instead of as numbers
LessThanAsText(a, b) ==
    \E i \in 1..(Len(a) + Len(b)) :
        /\ \A j \in 1..(i - 1) : Segment(a, j) = Segment(b, j)
        /\ TextLess(Itoa(Segment(a, i)), Itoa(Segment(b, i)))

\* Version.LessThan: the first differing segment decides, numerically
LessThan(a, b) ==
    \E i \in 1..(Len(a) + Len(b)) :
        /\ \A j \in 1..(i - 1) : Segment(a, j) = Segment(b, j)
        /\ Segment(a, i) < Segment(b, i)

VersionArgs == <<sDashVersion>>

\* CreateSATAController(vmName, name, portcount), with what its version
\* query (vrun) and its storagectl command (crun) do
CreateSATAController(vmName, name, portcount, vrun, crun) ==
    LET v == Version(vrun)
        currentVersion == NewVersion(v.version)
        firstVersionUsingPortCount == NewVersion(sFourThree)
        portCountArg ==
            IF LessThan(currentVersion.segments, firstVersionUsingPortCount.segments)
            THEN sSataPortCount
            ELSE sPortCount
        command == <<sStoragectl, vmName, sDashName, name, sDashAdd, sSata,
                     portCountArg, Itoa(portcount)>>
    IN  IF v.err.type # "nil"
        THEN [err |-> v.err, issued |-> <<VersionArgs>>]
        ELSE IF ~currentVersion.ok
        THEN [err |-> Errorf(sMalformed \o v.version), issued |-> <<VersionArgs>>]
        ELSE [err |-> VBoxManage(crun), issued |-> <<VersionArgs, command>>]

\* what "VBoxManage --version" prints
VersionTexts ==
    { pre \o major \o rest \o tag \o post :
        pre \in {<<>>, <<" ">>},
        major \in {<<"3">>, <<"4">>, <<"5">>},
        rest \in {<<>>, <<".", "2">>, <<".", "3">>, <<".", "1", "0">>,
                  <<".", "2", ".", "9", "9">>, <<".", "3", ".", "0">>,
                  <<".", "1", ".", "2">>, <<".">>, <<".", ".", "3">>},
        tag \in {<<>>, sRC1, sOSEr2, sBeta, sR98},
        post \in {<<>>, <<"\n">>} }
    \cup { <<>>, sBeta, <<" ">> \o sBeta \o <<"\n">>, <<"v", "4", ".", "3">>, sVboxdrv,
           sWarnDrv \o <<"4", ".", "3", ".", "0">>,
           <<"4", ".", "3", ".", "0", "\n">> \o sWarnDrv,
           <<"4", ".", "3", ".", "0", "_">> \o sVboxdrv }

VersionRuns ==
    [err : {ExitZero}, stdout : VersionTexts]
    \cup [err : {ExitNonZero, LaunchErr(sExecNotFound)},
          stdout : {<<>>, <<"4", ".", "3", ".", "0">>}]

\* what the storagectl command can do
StoragectlRuns ==
    { [err |-> ExitZero, stdout |-> <<>>, stderr |-> <<>>],
      [err |-> ExitNonZero, stdout |-> <<>>, stderr |-> sBoom] }

PortCounts == {1, 12}

NoVersionRun == [err |-> NoErr, stdout |-> <<>>]
NoVersion == [version |-> <<>>, err |-> NoErr]

VerInit ==
    /\ verPc = "idle"
    /\ verOp = "none"
    /\ verRun = NoVersionRun
    /\ verRet = NoVersion
    /\ sataPortCount = 0
    /\ sataRet = NoErr
    /\ verIssued = <<>>

\* a call of Version()
VersionCall ==
    /\ verPc = "idle"
    /\ \E run \in VersionRuns :
          /\ verRun' = run
          /\ verRet' = Version(run)
    /\ verPc' = "returned"
    /\ verOp' = "Version"
    /\ verIssued' = <<VersionArgs>>
    /\ UNCHANGED <<sataPortCount, sataRet, exceptVer>>

\* a call of CreateSATAController
CreateSATAControllerCall ==
    /\ verPc = "idle"
    /\ \E vrun \in VersionRuns, crun \in StoragectlRuns, portcount \in PortCounts :
          LET r == CreateSATAController(sVm, sCtl, portcount, vrun, crun)
          IN  /\ verRun' = vrun
              /\ verRet' = Version(vrun)
              /\ sataPortCount' = portcount
              /\ sataRet' = r.err
              /\ verIssued' = r.issued
    /\ verPc' = "returned"
    /\ verOp' = "CreateSATAController"
    /\ UNCHANGED exceptVer

\* the caller has taken the result
VersionDone ==
    /\ verPc = "returned"
    /\ verPc' = "idle"
    /\ verOp' = "none"
    /\ verRun' = NoVersionRun
    /\ verRet' = NoVersion
    /\ sataPortCount' = 0
    /\ sataRet' = NoErr
    /\ verIssued' = <<>>
    /\ UNCHANGED exceptVer

NextVersion ==
    \/ VersionCall
    \/ CreateSATAControllerCall
    \/ VersionDone

---------------------------------------------------------------------------
(* Running-state query: IsRunning *)

sStateRunning ==
    <<"V", "M", "S", "t", "a", "t", "e", "=", "\"", "r", "u", "n", "n", "i", "n", "g", "\"">>
sStateStopping ==
    <<"V", "M", "S", "t", "a", "t", "e", "=", "\"", "s", "t", "o", "p", "p", "i", "n", "g", "\"">>
sStatePaused ==
    <<"V", "M", "S", "t", "a", "t", "e", "=", "\"", "p", "a", "u", "s", "e", "d", "\"">>
sStatePoweroff ==
    <<"V", "M", "S", "t", "a", "t", "e", "=", "\"", "p", "o", "w", "e", "r", "o", "f", "f", "\"">>
sStateSaved ==
    <<"V", "M", "S", "t", "a", "t", "e", "=", "\"", "s", "a", "v", "e", "d", "\"">>
sStateUpper ==
    <<"V", "M", "S", "t", "a", "t", "e", "=", "\"", "R", "u", "n", "n", "i", "n", "g", "\"">>
sNameLine ==
    <<"n", "a", "m", "e", "=", "\"", "v", "m", "\"">>
sStateChange ==
    <<"V", "M", "S", "t", "a", "t", "e", "C", "h", "a", "n", "g", "e", "T", "i", "m", "e", "=", "\"", "r", "u", "n", "n", "i", "n", "g", "\"">>

\* strings.TrimRight(line, "\r"): every trailing carriage return goes
RECURSIVE TrimRightCR(_)
TrimRightCR(line) ==
    IF line # <<>> /\ line[Len(line)] = "\r"
    THEN TrimRightCR(SubSeq(line, 1, Len(line) - 1))
    ELSE line

\* the comparisons without the one for "paused"
IsRunningLineNoPaused(line) ==
    \/ line = sStateRunning
    \/ line = sStateStopping

\* the three comparisons of the loop body
IsRunningLine(line) ==
    \/ line = sStateRunning
    \/ line = sStateStopping
    \/ line = sStatePaused

\* the loop over the lines: true at the first line that compares equal
RECURSIVE AnyRunningLine(_)
AnyRunningLine(lines) ==
    IF lines = <<>> THEN FALSE
    ELSE IF IsRunningLine(TrimRightCR(Head(lines))) THEN TRUE
    ELSE AnyRunningLine(Tail(lines))

\* IsRunning(name) after cmd.Run() returned run.err with run.stdout
IsRunning(run) ==
    IF run.err.type # "nil"
    THEN [running |-> FALSE, err |-> run.err]
    ELSE [running |-> AnyRunningLine(Split(run.stdout, "\n")), err |-> NoErr]

\* the lines "showvminfo --machinereadable" may print
InfoLines ==
    { sNameLine, sStateChange, sStateRunning, sStateStopping, sStatePaused,
      sStatePoweroff, sStateSaved, sStateUpper,
      sStateRunning \o <<"\r">>, sStatePaused \o <<"\r", "\r">>,
      <<" ">> \o sStateRunning, sStateStopping \o <<" ">>,
      <<"x">> \o sStatePaused }

\* the most lines of an output
MaxInfoLines == 2

RECURSIVE JoinLines(_)
JoinLines(lines) ==
    IF lines = <<>> THEN <<>>
    ELSE IF Len(lines) = 1 THEN lines[1]
    ELSE lines[1] \o <<"\n">> \o JoinLines(Tail(lines))

InfoTexts ==
    { JoinLines(ls) \o post :
        ls \in UNION {[1..n -> InfoLines] : n \in 0..MaxInfoLines},
        post \in {<<>>, <<"\n">>} }

InfoRuns ==
    [err : {ExitZero}, stdout : InfoTexts]
    \cup [err : {ExitNonZero, LaunchErr(sExecNotFound)},
          stdout : {<<>>, sStateRunning}]

NoInfo == [running |-> FALSE, err |-> NoErr]

InfoInit ==
    /\ infoPc = "idle"
    /\ infoRun = NoVersionRun
    /\ infoRet = NoInfo

\* a call of IsRunning
IsRunningCall ==
    /\ infoPc = "idle"
    /\ \E run \in InfoRuns :
          /\ infoRun' = run
          /\ infoRet' = IsRunning(run)
    /\ infoPc' = "returned"
    /\ UNCHANGED exceptInfo

\* the caller has taken the result
IsRunningDone ==
    /\ infoPc = "returned"
    /\ infoPc' = "idle"
    /\ infoRun' = NoVersionRun
    /\ infoRet' = NoInfo
    /\ UNCHANGED exceptInfo

NextInfo == IsRunningCall \/ IsRunningDone

---------------------------------------------------------------------------
(* Additions ISO discovery: Iso *)

sIsoLabel ==
    <<"D", "e", "f", "a", "u", "l", "t", " ", "G", "u", "e", "s", "t", " ", "A", "d", "d", "i", "t", "i", "o", "n", "s", " ", "I", "S", "O", ":">>
sIsoNoColon ==
    <<"D", "e", "f", "a", "u", "l", "t", " ", "G", "u", "e", "s", "t", " ", "A", "d", "d", "i", "t", "i", "o", "n", "s", " ", "I", "S", "O">>
sIsoPath ==
    <<"/", "a", ".", "i", "s", "o">>
sIsoNotFound ==
    <<"C", "a", "n", "n", "o", "t", " ", "f", "i", "n", "d", " ", "\"", "D", "e", "f", "a", "u", "l", "t", " ", "G", "u", "e", "s", "t", " ", "A", "d", "d", "i", "t", "i", "o", "n", "s", " ", "I", "S", "O", "\"", " ", "i", "n", " ", "v", "b", "o", "x", "m", "a", "n", "a", "g", "e", " ", "o", "u", "t", "p", "u", "t", " ", "(", "o", "r", " ", "i", "t", " ", "i", "s", " ", "e", "m", "p", "t", "y", ")">>
sApiLine ==
    <<"A", "P", "I", " ", "v", "e", "r", "s", "i", "o", "n", ":", " ", "4", "_", "3">>

\* strings.TrimRight(s, cutset) and strings.TrimLeft(s, cutset)
RECURSIVE TrimRightChars(_, _)
TrimRightChars(s, cutset) ==
    IF s # <<>> /\ s[Len(s)] \in cutset
    THEN TrimRightChars(SubSeq(s, 1, Len(s) - 1), cutset)
    ELSE s

RECURSIVE TrimLeftChars(_, _)
TrimLeftChars(s, cutset) ==
    IF s # <<>> /\ Head(s) \in cutset THEN TrimLeftChars(Tail(s), cutset) ELSE s

\* strings.Trim(s, cutset)
Trim(s, cutset) == TrimRightChars(TrimLeftChars(s, cutset), cutset)

\* DefaultGuestAdditionsRe.FindStringSubmatch(line): the pattern
\* "Default Guest Additions ISO:(.+)" is not anchored; the result is the
\* text the group captures, the rest of the line after the leftmost label
\* that has a character after it, or no match
FindAdditions(line) ==
    LET at == {i \in 1..Len(line) :
                 /\ HasPrefix(Drop(line, i), sIsoLabel)
                 /\ i + Len(sIsoLabel) <= Len(line)}
    IN  IF at = {} THEN [matched |-> FALSE, value |-> <<>>]
        ELSE [matched |-> TRUE,
              value |-> Drop(line, (CHOOSE i \in at : \A j \in at : i <= j)
                                   + Len(sIsoLabel))]

\* the loop over the lines: the value of the first line that matches, and
\* the error when none does
RECURSIVE FirstAdditions(_)
FirstAdditions(lines) ==
    IF lines = <<>> THEN [isoname |-> <<>>, err |-> Errorf(sIsoNotFound)]
    ELSE LET m == FindAdditions(TrimRightChars(Head(lines), {" ", "\r"}))
         IN  IF m.matched
             THEN [isoname |-> Trim(m.value, {" ", "\r", "\n"}), err |-> NoErr]
             ELSE FirstAdditions(Tail(lines))

\* Iso() after cmd.Run() returned run.err with run.stdout in the buffer
Iso(run) ==
    IF run.err.type # "nil"
    THEN [isoname |-> <<>>, err |-> run.err]
    ELSE FirstAdditions(Split(run.stdout, "\n"))

\* the lines "list systemproperties" may print
IsoLines ==
    { sApiLine, sIsoNoColon, sIsoLabel, sIsoLabel \o <<" ", " ", "\r">>,
      sIsoLabel \o <<" ">> \o sIsoPath, sIsoLabel \o sIsoPath \o <<" ", "\r">>,
      <<" ", " ">> \o sIsoLabel \o <<" ", "b">>,
      sIsoLabel \o <<" ">> \o sIsoLabel \o <<"c">> }

\* the most lines of an output
MaxIsoLines == 2

IsoTexts ==
    { JoinLines(ls) \o post :
        ls \in UNION {[1..n -> IsoLines] : n \in 0..MaxIsoLines},
        post \in {<<>>, <<"\n">>} }

IsoRuns ==
    [err : {ExitZero}, stdout : IsoTexts]
    \cup [err : {ExitNonZero, LaunchErr(sExecNotFound)},
          stdout : {<<>>, sIsoLabel \o sIsoPath}]

NoIso == [isoname |-> <<>>, err |-> NoErr]

IsoInit ==
    /\ isoPc = "idle"
    /\ isoRun = NoVersionRun
    /\ isoRet = NoIso

\* a call of Iso
IsoCall ==
    /\ isoPc = "idle"
    /\ \E run \in IsoRuns :
          /\ isoRun' = run
          /\ isoRet' = Iso(run)
    /\ isoPc' = "returned"
    /\ UNCHANGED exceptIso

\* the caller has taken the result
IsoDone ==
    /\ isoPc = "returned"
    /\ isoPc' = "idle"
    /\ isoRun' = NoVersionRun
    /\ isoRet' = NoIso
    /\ UNCHANGED exceptIso

NextIso == IsoCall \/ IsoDone

---------------------------------------------------------------------------
(* Stop, and the time it takes: the clock now counts the seconds since     *)
(* Stop was called.                                                        *)

sControlvm ==
    <<"c", "o", "n", "t", "r", "o", "l", "v", "m">>
sPoweroff ==
    <<"p", "o", "w", "e", "r", "o", "f", "f">>

\* a shorter sleep
GracePeriodShorter == 1

\* time.Sleep(2 * time.Second)
GracePeriod == 2

\* the last second the clock shows
MaxTime == 4

\* what "controlvm <name> poweroff" can do
PoweroffRuns ==
    { [err |-> ExitZero, stdout |-> <<>>, stderr |-> <<>>],
      [err |-> ExitNonZero, stdout |-> <<>>, stderr |-> sBoom],
      [err |-> ExitZero, stdout |-> <<>>,
       stderr |-> sVBoxManage \o sDotExe \o sErrorBanner \o sBoom],
      [err |-> LaunchErr(sExecNotFound), stdout |-> <<>>, stderr |-> <<>>] }

StopInit ==
    /\ stopPc = "idle"
    /\ stopIssued = <<>>
    /\ stopRun = NoRun
    /\ stopCmdErr = NoErr
    /\ stopOffAt = 0
    /\ stopWake = 0
    /\ stopRet = NoErr
    /\ now = 0

\* Stop(name) is called and starts the power-off command
StopCall ==
    /\ stopPc = "idle"
    /\ delPc = "idle"
    /\ stopPc' = "poweroff"
    /\ stopIssued' = << <<sControlvm, sVm, sPoweroff>> >>
    /\ UNCHANGED <<stopRun, stopCmdErr, stopOffAt, stopWake, stopRet, now, exceptStop>>

\* the power-off command is over: Stop returns its error, or goes to sleep
StopPoweroff ==
    /\ stopPc = "poweroff"
    /\ \E run \in PoweroffRuns :
          LET err == VBoxManage(run)
          IN  /\ stopRun' = run
              /\ stopCmdErr' = err
              /\ stopOffAt' = now
              /\ IF err.type # "nil"
                 THEN /\ stopPc' = "returned"
                      /\ stopRet' = err
                      /\ stopWake' = stopWake
                 ELSE /\ stopPc' = "sleep"
                      /\ stopWake' = now + GracePeriod
                      /\ stopRet' = stopRet
    /\ UNCHANGED <<stopIssued, now, exceptStop>>

\* the sleep is over: return nil
StopWake ==
    /\ stopPc = "sleep"
    /\ now >= stopWake
    /\ stopPc' = "returned"
    /\ stopRet' = NoErr
    /\ UNCHANGED <<stopIssued, stopRun, stopCmdErr, stopOffAt, stopWake, now, exceptStop>>

\* a second passes
Tick ==
    /\ stopPc # "idle"
    /\ now < MaxTime
    /\ now' = now + 1
    /\ UNCHANGED <<stopPc, stopIssued, stopRun, stopCmdErr, stopOffAt, stopWake,
                   stopRet, exceptStop>>

\* the caller, which called Stop, goes on with Delete
DeleteAfterStop ==
    /\ stopPc = "returned"
    /\ DeleteCall

\* the caller is done with the VM
StopDone ==
    /\ stopPc = "returned"
    /\ delPc = "idle"
    /\ stopPc' = "idle"
    /\ stopIssued' = <<>>
    /\ stopRun' = NoRun
    /\ stopCmdErr' = NoErr
    /\ stopOffAt' = 0
    /\ stopWake' = 0
    /\ stopRet' = NoErr
    /\ now' = 0
    /\ UNCHANGED exceptStop

NextStop ==
    \/ StopCall
    \/ StopPoweroff
    \/ StopWake
    \/ Tick
    \/ DeleteAfterStop
    \/ DeleteAttempt
    \/ DeleteWait
    \/ DeleteDone
    \/ StopDone

---------------------------------------------------------------------------
(* Snapshot Tree Builder: LoadSnapshots, with HasSnapshots and             *)
(* GetCurrentSnapshot which call it, and the snapshot commands             *)
(* CreateSnapshot, SetSnapshot and DeleteSnapshot.                         *)
(*                                                                         *)
(* A VBoxSnapshot is a record of its fields Name, UUID, IsCurrent and      *)
(* Children; a pointer to one is its index in nodes, and nil is 0.  A line *)
(* of the listing is given by what the loop body reads of it: whether it   *)
(* has a '=' after its first character, whether it starts with "Current",  *)
(* and the groups SnapshotNamePartsRe captures (Type, Path, Value), the    *)
(* path being the numbers of its "-N" segments.                            *)

sNoSnapshots ==
    <<"T", "h", "i", "s", " ", "m", "a", "c", "h", "i", "n", "e", " ", "d", "o", "e", "s", " ", "n", "o", "t", " ", "h", "a", "v", "e", " ", "a", "n", "y", " ", "s", "n", "a", "p", "s", "h", "o", "t", "s">>
sCurrent ==
    <<"C", "u", "r", "r", "e", "n", "t">>
sSnapshot ==
    <<"s", "n", "a", "p", "s", "h", "o", "t">>
sList ==
    <<"l", "i", "s", "t">>
sDashMachinereadable ==
    <<"-", "-", "m", "a", "c", "h", "i", "n", "e", "r", "e", "a", "d", "a", "b", "l", "e">>
sTake ==
    <<"t", "a", "k", "e">>
sRestore ==
    <<"r", "e", "s", "t", "o", "r", "e">>
sDelete ==
    <<"d", "e", "l", "e", "t", "e">>

\* the most Name records, current-snapshot lines and lines without '=' of
\* a listing
MaxNodes == 6
MaxMarkers == 1
MaxSkipped == 1

Nil == 0

\* new(VBoxSnapshot): every field has its zero value
NewSnapshot == [Name |-> <<>>, UUID |-> <<>>, IsCurrent |-> FALSE, Children |-> <<>>]

NameLine(path, value) == [kind |-> "Name", path |-> path, value |-> value]
UUIDLine(path, value) == [kind |-> "UUID", path |-> path, value |-> value]
CurrentLine == [kind |-> "Current", path |-> <<>>, value |-> <<>>]
NoEqLine == [kind |-> "NoEq", path |-> <<>>, value |-> <<>>]
OtherLine == [kind |-> "Other", path |-> <<>>, value |-> <<>>]

\* strings.Index(txt, "="), counted from 0; -1 when there is none
IndexEq(txt) ==
    IF \E i \in 1..Len(txt) : txt[i] = "="
    THEN (CHOOSE i \in 1..Len(txt) : txt[i] = "=" /\ \A j \in 1..(i - 1) : txt[j] # "=") - 1
    ELSE -1

\* a line of plain text as the loop body reads it; a text with a '=' that
\* is no Snapshot record is matched by nothing
LineOfText(txt) ==
    IF IndexEq(txt) > 0
    THEN IF HasPrefix(txt, sCurrent) THEN CurrentLine ELSE OtherLine
    ELSE NoEqLine

\* [1-9]+ : the decimal text of a path segment has no digit 0
RECURSIVE NoZeroDigit(_)
NoZeroDigit(n) ==
    IF n < 10 THEN n # 0 ELSE (n % 10 # 0) /\ NoZeroDigit(n \div 10)

\* SnapshotNamePartsRe finds the record in the line
RecordMatches(ln) ==
    /\ ln.kind \in {"Name", "UUID"}
    /\ \A i \in 1..Len(ln.path) : NoZeroDigit(ln.path[i])

\* strings.Count(indicator, "-")
PathLen(indicator) == Len(indicator)

\* stack.Pop, n times: popping an empty stack does nothing
PopN(stk, n) == IF n >= Len(stk) THEN <<>> ELSE SubSeq(stk, 1, Len(stk) - n)

\* for i := 0; i < pathLenCur-1; i++ { parentStack.Pop() }
PopCount(pathLenCur, pathLen) == IF pathLenCur - 1 > 0 THEN pathLenCur - 1 ELSE 0

\* a line without '=' ends the parse
InvalidPairAborts(p) == [p EXCEPT !.panic = "invalid pair"]

\* log.Printf("Invalid key,value pair [%s]", txt): the line is logged and
\* nothing else is done
InvalidPair(p) == p

\* the flag given to the first node
SetCurrentOfFirst(ns, n) == [ns EXCEPT ![1].IsCurrent = TRUE]

\* node.IsCurrent = true
SetCurrent(ns, n) == [ns EXCEPT ![n].IsCurrent = TRUE]

\* the UUID given to the first node
SetUUIDOfFirst(ns, n, value) == [ns EXCEPT ![1].UUID = value]

\* node.UUID = matches[4]
SetUUID(ns, n, value) == [ns EXCEPT ![n].UUID = value]

\* every Name record starts a tree
NoRootEver(root) == TRUE

\* nil == rootNode
NoRoot(root) == Nil = root

\* The loop body for one line ln, from the parser state p; the result is
\* the new state, with panic set when the body aborts.
ProcessLine(p, ln) ==
    LET abort(why) == [p EXCEPT !.panic = why]
    IN
    IF ln.kind = "NoEq" THEN InvalidPair(p)
    ELSE IF ln.kind = "Current"
    THEN IF p.node = Nil
         THEN abort("nil node")
         ELSE [p EXCEPT !.nodes = SetCurrent(p.nodes, p.node)]
    ELSE IF ~RecordMatches(ln) THEN abort("no match")
    ELSE IF ln.kind = "UUID"
    THEN IF p.node = Nil
         THEN abort("nil node")
         ELSE [p EXCEPT !.nodes = SetUUID(p.nodes, p.node, ln.value)]
    ELSE IF NoRoot(p.rootNode)
    THEN LET new == Len(p.nodes) + 1
         IN  [p EXCEPT !.nodes = Append(p.nodes, [NewSnapshot EXCEPT !.Name = ln.value]),
                       !.node = new,
                       !.rootNode = new,
                       !.currentIndicator = ln.path]
    ELSE LET pathLenCur == PathLen(p.currentIndicator)
             pathLen == PathLen(ln.path)
             indicator == IF pathLen > pathLenCur THEN ln.path ELSE p.currentIndicator
             stk == IF pathLen > pathLenCur THEN Append(p.parentStack, p.node)
                    ELSE IF pathLen < pathLenCur
                    THEN PopN(p.parentStack, PopCount(pathLenCur, pathLen))
                    ELSE p.parentStack
             new == Len(p.nodes) + 1
             parent == IF stk = <<>> THEN Nil ELSE stk[Len(stk)]
         IN  IF parent = Nil
             THEN [p EXCEPT !.panic = "nil stack top",
                            !.currentIndicator = indicator,
                            !.parentStack = stk]
             ELSE [p EXCEPT
                     !.nodes = Append(
                         [p.nodes EXCEPT ![parent].Children = Append(@, new)],
                         [NewSnapshot EXCEPT !.Name = ln.value]),
                     !.node = new,
                     !.currentIndicator = indicator,
                     !.parentStack = stk]

\* stdoutString != "This machine does not have any snapshots"
HasListing(stdoutString) == stdoutString # sNoSnapshots

\* the comparison turned around
HasSnapshotsInverted(sn, err) ==
    IF err.type # "nil" THEN [has |-> FALSE, err |-> err]
    ELSE [has |-> Nil = sn, err |-> NoErr]

\* HasSnapshots, from what its call of LoadSnapshots returned
HasSnapshots(sn, err) ==
    IF err.type # "nil" THEN [has |-> FALSE, err |-> err]
    ELSE [has |-> Nil # sn, err |-> NoErr]

\* the names and UUIDs of the listings: the k-th snapshot is "s<k>", with
\* UUID "u<k>"
SnapshotName(k) == <<"s">> \o Itoa(k)
SnapshotUUID(k) == <<"u">> \o Itoa(k)

\* the paths that may follow path p in a pre-order listing: the first child
\* of p, or the next sibling of p or of one of its ancestors
NextPaths(p) ==
    {p \o <<1>>} \cup {SubSeq(p, 1, d - 1) \o <<p[d] + 1>> : d \in 1..Len(p)}

NameLines(lines) == SelectSeq(lines, LAMBDA l : l.kind = "Name")
UUIDLines(lines) == SelectSeq(lines, LAMBDA l : l.kind = "UUID")
MarkerLines(lines) == SelectSeq(lines, LAMBDA l : l.kind = "Current")

\* the last Name record read still waits for its UUID record
AwaitsUUID(lines) == Len(UUIDLines(lines)) < Len(NameLines(lines))

\* the lines the tool may print after the records in lines (skipped lines
\* without '=' have been seen): the listing is in pre-order, with one root,
\* every Name record followed by its UUID record
ListingLines(lines, skipped) ==
    LET names == NameLines(lines)
        n == Len(names)
    IN  (IF n = 0 THEN {NameLine(<<>>, SnapshotName(1))}
         ELSE IF AwaitsUUID(lines) THEN {UUIDLine(names[n].path, SnapshotUUID(n))}
         ELSE IF n >= MaxNodes THEN {}
         ELSE {NameLine(q, SnapshotName(n + 1)) : q \in NextPaths(names[n].path)})
        \cup (IF Len(MarkerLines(lines)) < MaxMarkers THEN {CurrentLine} ELSE {})
        \cup (IF skipped < MaxSkipped THEN {NoEqLine} ELSE {})

\* outputs that are no listing
sEqText ==
    <<"x", "=", "1">>

SnapshotTexts ==
    { <<>>, sNoSnapshots, <<" ">> \o sNoSnapshots \o <<"\n">>,
      sNoSnapshots \o <<".">>, sNoSnapshots \o <<"\n">> \o sBoom \o sOk,
      sEqText }

\* what "snapshot <vm> list --machinereadable" can do; a run whose listing
\* field is set prints a listing, given line by line to the scanner
SnapshotRuns ==
    [err : {ExitZero}, stdout : SnapshotTexts, stderr : {<<>>}, listing : {FALSE}]
    \cup [err : {ExitZero}, stdout : {<<>>}, stderr : {<<>>}, listing : {TRUE}]
    \cup [err : {ExitNonZero}, stdout : {<<>>, sNoSnapshots}, stderr : {sBoom},
          listing : {FALSE}]
    \cup [err : {ExitZero}, stdout : {sNoSnapshots},
          stderr : {sVBoxManage \o sDotExe \o sErrorBanner}, listing : {FALSE}]
    \cup [err : {LaunchErr(sExecNotFound)}, stdout : {<<>>}, stderr : {<<>>},
          listing : {FALSE}]

NoSnapRun == [err |-> NoErr, stdout |-> <<>>, stderr |-> <<>>, listing |-> FALSE]
NoParse ==
    [nodes |-> <<>>, rootNode |-> Nil, node |-> Nil, currentIndicator |-> <<>>,
     parentStack |-> <<>>, panic |-> "none"]
NoSnapRet == [sn |-> Nil, err |-> NoErr]
NoHasRet == [has |-> FALSE, err |-> NoErr]

Parser ==
    [nodes |-> nodes, rootNode |-> rootNode, node |-> node,
     currentIndicator |-> currentIndicator, parentStack |-> parentStack,
     panic |-> snapPanic]

SetParser(p) ==
    /\ nodes' = p.nodes
    /\ rootNode' = p.rootNode
    /\ node' = p.node
    /\ currentIndicator' = p.currentIndicator
    /\ parentStack' = p.parentStack
    /\ snapPanic' = p.panic

SnapInit ==
    /\ snapPc = "idle"
    /\ snapOp = "none"
    /\ snapVm = <<>>
    /\ snapArg = Nil
    /\ snapIssued = <<>>
    /\ cmdRet = NoErr
    /\ snapRun = NoSnapRun
    /\ snapText = <<>>
    /\ snapLines = <<>>
    /\ snapSkipped = 0
    /\ nodes = <<>>
    /\ rootNode = Nil
    /\ node = Nil
    /\ currentIndicator = <<>>
    /\ parentStack = <<>>
    /\ snapPanic = "none"
    /\ snapRet = NoSnapRet
    /\ hasRet = NoHasRet

\* LoadSnapshots(vmName) returns (sn, err), to its caller or to HasSnapshots
Return(op, sn, err) ==
    /\ snapPc' = "returned"
    /\ snapRet' = [sn |-> sn, err |-> err]
    /\ hasRet' = IF op = "HasSnapshots" THEN HasSnapshots(sn, err) ELSE NoHasRet

\* the arguments of "snapshot <vm> list --machinereadable"
ListArgs(vmName) == <<sSnapshot, vmName, sList, sDashMachinereadable>>

\* LoadSnapshots, or HasSnapshots or GetCurrentSnapshot which call it after
\* the same argument check, up to the first Scan: the argument check, the
\* listing command and the test for the sentinel.  GetCurrentSnapshot
\* returns what VBoxSnapshot.GetCurrentSnapshot finds in the tree snapRet
\* holds.
LoadSnapshotsCall ==
    /\ snapPc = "idle"
    /\ \E op \in {"LoadSnapshots", "HasSnapshots", "GetCurrentSnapshot"},
          vmName \in {<<>>, sVm}, run \in SnapshotRuns :
          LET r == VBoxManageWithOutput(run)
          IN  /\ snapOp' = op
              /\ snapVm' = vmName
              /\ snapArg' = Nil
              /\ snapIssued' = IF vmName = <<>> THEN <<>> ELSE <<ListArgs(vmName)>>
              /\ cmdRet' = NoErr
              /\ snapLines' = <<>>
              /\ snapSkipped' = 0
              /\ SetParser([NoParse EXCEPT
                    !.panic = IF vmName = <<>> THEN "empty vmName" ELSE "none"])
              /\ IF vmName = <<>>
                 THEN /\ snapPc' = "panic"
                      /\ snapRun' = NoSnapRun
                      /\ snapText' = <<>>
                      /\ UNCHANGED <<snapRet, hasRet>>
                 ELSE /\ snapRun' = run
                      /\ IF r.err.type # "nil"
                         THEN snapText' = <<>> /\ Return(op, Nil, r.err)
                         ELSE IF ~run.listing /\ ~HasListing(r.out)
                         THEN snapText' = <<>> /\ Return(op, Nil, NoErr)
                         ELSE /\ snapPc' = "scan"
                              /\ snapText' = IF run.listing \/ r.out = <<>>
                                             THEN <<>>
                                             ELSE Split(r.out, "\n")
                              /\ UNCHANGED <<snapRet, hasRet>>
    /\ UNCHANGED exceptSnap

\* one turn of the loop: scanner.Scan() gave a line
ScanLine ==
    /\ snapPc = "scan"
    /\ \E ln \in IF snapRun.listing
                 THEN ListingLines(snapLines, snapSkipped)
                 ELSE IF snapText # <<>> THEN {LineOfText(Head(snapText))} ELSE {} :
          LET p == ProcessLine(Parser, ln)
          IN  /\ SetParser(p)
              /\ snapPc' = IF p.panic # "none" THEN "panic" ELSE "scan"
              /\ snapLines' = IF ln.kind = "NoEq" THEN snapLines ELSE Append(snapLines, ln)
              /\ snapSkipped' = IF ln.kind = "NoEq" THEN snapSkipped + 1 ELSE snapSkipped
    /\ snapText' = IF snapText # <<>> THEN Tail(snapText) ELSE snapText
    /\ UNCHANGED <<snapOp, snapVm, snapArg, snapIssued, cmdRet, snapRun, snapRet,
                   hasRet, exceptSnap>>

\* scanner.Scan() gave no more line: return rootNode, nil
ScanEnd ==
    /\ snapPc = "scan"
    /\ IF snapRun.listing THEN ~AwaitsUUID(snapLines) ELSE snapText = <<>>
    /\ Return(snapOp, rootNode, NoErr)
    /\ UNCHANGED <<snapOp, snapVm, snapArg, snapIssued, cmdRet, snapRun,
                   snapText, snapLines, snapSkipped, nodes, rootNode, node,
                   currentIndicator, parentStack, snapPanic, exceptSnap>>

\* the snapshots a caller may hand to SetSnapshot and DeleteSnapshot: a
\* pointer is an index in this sequence, nil is 0
CallerSnapshots ==
    << [NewSnapshot EXCEPT !.Name = SnapshotName(1), !.UUID = SnapshotUUID(1)],
       [NewSnapshot EXCEPT !.Name = SnapshotName(2)] >>

\* what "snapshot <vm> take|restore|delete" can do
SnapshotCommandRuns ==
    { [err |-> ExitZero, stdout |-> <<>>, stderr |-> <<>>],
      [err |-> ExitNonZero, stdout |-> <<>>, stderr |-> sBoom],
      [err |-> LaunchErr(sExecNotFound), stdout |-> <<>>, stderr |-> <<>>] }

\* what a snapshot command operation did: it aborted, or it ran the
\* command and returned its error
Aborted(why) == [panic |-> why, err |-> NoErr, issued |-> <<>>]
Ran(command, run) == [panic |-> "none", err |-> VBoxManage(run), issued |-> <<command>>]

\* CreateSnapshot(vmname, snapshotName), with what its command does
CreateSnapshot(vmname, snapshotName, run) ==
    IF vmname = <<>> THEN Aborted("empty vmName")
    ELSE Ran(<<sSnapshot, vmname, sTake, snapshotName>>, run)

\* SetSnapshot(vmname, sn), with what its command does
SetSnapshot(vmname, sn, run) ==
    IF vmname = <<>> THEN Aborted("empty vmName")
    ELSE IF Nil = sn THEN Aborted("nil sn")
    ELSE Ran(<<sSnapshot, vmname, sRestore, CallerSnapshots[sn].UUID>>, run)

\* DeleteSnapshot(vmname, sn), with what its command does
DeleteSnapshot(vmname, sn, run) ==
    IF vmname = <<>> THEN Aborted("empty vmName")
    ELSE IF Nil = sn THEN Aborted("nil sn")
    ELSE Ran(<<sSnapshot, vmname, sDelete, CallerSnapshots[sn].UUID>>, run)

\* a snapshot command operation op, called with vmname and sn, did r
SnapshotCommandDid(op, vmname, sn, r) ==
    /\ snapOp' = op
    /\ snapVm' = vmname
    /\ snapArg' = sn
    /\ snapIssued' = r.issued
    /\ cmdRet' = r.err
    /\ snapPanic' = r.panic
    /\ snapPc' = IF r.panic # "none" THEN "panic" ELSE "returned"

\* what the snapshot command operations leave alone: the parser
exceptCommand ==
    <<snapRun, snapText, snapLines, snapSkipped, nodes, rootNode, node,
      currentIndicator, parentStack, snapRet, hasRet>>

\* a call of CreateSnapshot
CreateSnapshotCall ==
    /\ snapPc = "idle"
    /\ \E vmname \in {<<>>, sVm}, snapshotName \in {<<>>, SnapshotName(1)},
          run \in SnapshotCommandRuns :
          SnapshotCommandDid("CreateSnapshot", vmname, Nil,
                             CreateSnapshot(vmname, snapshotName, run))
    /\ UNCHANGED <<exceptCommand, exceptSnap>>

\* a call of SetSnapshot
SetSnapshotCall ==
    /\ snapPc = "idle"
    /\ \E vmname \in {<<>>, sVm}, sn \in 0..Len(CallerSnapshots),
          run \in SnapshotCommandRuns :
          SnapshotCommandDid("SetSnapshot", vmname, sn,
                             SetSnapshot(vmname, sn, run))
    /\ UNCHANGED <<exceptCommand, exceptSnap>>

\* a call of DeleteSnapshot
DeleteSnapshotCall ==
    /\ snapPc = "idle"
    /\ \E vmname \in {<<>>, sVm}, sn \in 0..Len(CallerSnapshots),
          run \in SnapshotCommandRuns :
          SnapshotCommandDid("DeleteSnapshot", vmname, sn,
                             DeleteSnapshot(vmname, sn, run))
    /\ UNCHANGED <<exceptCommand, exceptSnap>>

\* the caller has taken the result, or the aborted process was started anew
LoadSnapshotsDone ==
    /\ snapPc \in {"returned", "panic"}
    /\ snapPc' = "idle"
    /\ snapOp' = "none"
    /\ snapVm' = <<>>
    /\ snapArg' = Nil
    /\ snapIssued' = <<>>
    /\ cmdRet' = NoErr
    /\ snapRun' = NoSnapRun
    /\ snapText' = <<>>
    /\ snapLines' = <<>>
    /\ snapSkipped' = 0
    /\ SetParser(NoParse)
    /\ snapRet' = NoSnapRet
    /\ hasRet' = NoHasRet
    /\ UNCHANGED exceptSnap

NextSnap ==
    \/ LoadSnapshotsCall
    \/ ScanLine
    \/ ScanEnd
    \/ CreateSnapshotCall
    \/ SetSnapshotCall
    \/ DeleteSnapshotCall
    \/ LoadSnapshotsDone

---------------------------------------------------------------------------

Init ==
    /\ ExecInit /\ InvInit /\ DelInit /\ VerInit /\ InfoInit /\ IsoInit /\ StopInit
    /\ SnapInit

SpecExec == Init /\ [][NextExec]_vars

SpecInv == Init /\ [][NextInv]_vars

SpecDelete == Init /\ [][NextDelete]_vars

SpecVersion == Init /\ [][NextVersion]_vars

SpecInfo == Init /\ [][NextInfo]_vars

SpecIso == Init /\ [][NextIso]_vars

SpecStop == Init /\ [][NextStop]_vars

SpecSnap == Init /\ [][NextSnap]_vars

\* The three queries that parse the tool's output, called one after the
\* other: the driver is synchronous, a call starts when none is in progress.
ParseIdle == verPc = "idle" /\ infoPc = "idle" /\ isoPc = "idle"

ParseVersion == ParseIdle /\ VersionCall
ParseIso == ParseIdle /\ IsoCall
ParseIsRunning == ParseIdle /\ IsRunningCall

NextParse ==
    \/ ParseVersion
    \/ ParseIso
    \/ ParseIsRunning
    \/ VersionDone
    \/ IsoDone
    \/ IsRunningDone

SpecParse == Init /\ [][NextParse]_vars

---------------------------------------------------------------------------
(* Properties.  They are stated on their own terms: white space trimming   *)
(* and the banner are defined here by what they mean, not by the           *)
(* operators the model computes with.                                      *)

\* t is s without its leading and trailing white space
IsTrimOf(t, s) ==
    \E i \in 1..(Len(s) + 1), j \in 0..Len(s) :
        /\ t = SubSeq(s, i, j)
        /\ \A k \in 1..Len(s) : (k < i \/ k > j) => s[k] \in WhiteSpace
        /\ t # <<>> => t[1] \notin WhiteSpace /\ t[Len(t)] \notin WhiteSpace

Trimmed(s) ==
    CHOOSE t \in {SubSeq(s, i, j) : i \in 1..(Len(s) + 1), j \in 0..Len(s)} :
        IsTrimOf(t, s)

\* s holds the tool's error banner: the tool name, an optional suffix of
\* lower-case letters and dots, then ": error:"
HasErrorBanner(s) ==
    \E i \in 1..Len(s), k \in 0..Len(s) :
        /\ i + 9 + k + 8 <= Len(s)
        /\ SubSeq(s, i, i + 9) = sVBoxManage
        /\ \A j \in (i + 10)..(i + 9 + k) : s[j] = "." \/ s[j] \in Lower
        /\ SubSeq(s, i + 10 + k, i + 9 + k + 8) = sErrorBanner

\* C3: when the tool exits with status zero, the result is a failure if and
\* only if the trimmed stderr holds the error banner (tool name, optional
\* suffix, ": error:"); without it the result is the trimmed stdout and no
\* error.
C3_ZeroExitFailsIffBanner ==
    (execPc = "returned" /\ execRun.err.type = "nil") =>
        /\ execRet.err.type # "nil" <=> HasErrorBanner(Trimmed(execRun.stderr))
        /\ ~HasErrorBanner(Trimmed(execRun.stderr)) =>
              execRet = [out |-> Trimmed(execRun.stdout), err |-> NoErr]

\* C4 as stated: when the process fails to start or exits with a non-zero
\* status, the result is a failure whose message is made of the trimmed
\* stderr, in both cases.
C4_FailureCarriesStderr ==
    (execPc = "returned" /\ execRun.err.type \in {"ExitError", "exec"}) =>
        /\ execRet.err.type # "nil"
        /\ execRet.err.msg = sErrPrefix \o Trimmed(execRun.stderr)

\* C4 amended: a non-zero exit gives a failure whose message is
\* "VBoxManage error: " followed by the trimmed stderr (never stdout); a
\* process that could not be started gives a failure that is the launch
\* error itself, unchanged.  Either way the payload is the trimmed stdout.
C4_ExitCarriesStderrLaunchKept ==
    execPc = "returned" =>
        /\ execRun.err.type = "ExitError" =>
              /\ execRet.err.type # "nil"
              /\ execRet.err.msg = sErrPrefix \o Trimmed(execRun.stderr)
        /\ execRun.err.type = "exec" =>
              /\ execRet.err.type # "nil"
              /\ execRet.err = execRun.err
        /\ execRet.out = Trimmed(execRun.stdout)

C4_Witness ==
    /\ execPc = "returned"
    /\ execRun.err.type = "ExitError"
    /\ Trimmed(execRun.stderr) # <<>>
    /\ Trimmed(execRun.stdout) # <<>>
    /\ Trimmed(execRun.stderr) # execRun.stderr

\* C5: Delete makes at most 5 attempts; it returns success at the first
\* attempt that succeeds, having made no attempt after it, and after 5
\* failed attempts it returns the error of the fifth.
C5_DeleteAtMostFiveAttempts ==
    LET n == Len(delLog) IN
    /\ n <= 5
    /\ \A i \in 1..(n - 1) : delLog[i].type # "nil"
    /\ delPc \in {"try", "wait"} => \A i \in 1..n : delLog[i].type # "nil"
    /\ delPc = "wait" => n < 5
    /\ delPc = "returned" =>
          /\ n >= 1
          /\ delLog[n].type = "nil" => delRet = [outcome |-> "ok", err |-> NoErr]
          /\ delLog[n].type # "nil" =>
                /\ n = 5
                /\ delRet = [outcome |-> "error", err |-> delLog[5]]

\* four failures, then a success at the fifth attempt
C5_Witness ==
    /\ delPc = "returned"
    /\ Len(delLog) = 5
    /\ delLog[5].type = "nil"
    /\ delRet.outcome = "ok"

\* C6: once the cancellation signal has fired while Delete waits or is
\* between two attempts, no further attempt is started, and Delete returns
\* a cancellation, which is not the outcome of exhausting the attempts.
C6_CancelStopsRetry ==
    [][(cancelSignal /\ delPc \in {"wait", "try"} /\ Len(delLog) >= 1) =>
          /\ Len(delLog') = Len(delLog)
          /\ delPc' = "returned" => delRet'.outcome = "cancelled"]_vars

\* s holds sub
ContainsText(s, sub) ==
    \E i \in 1..(Len(s) - Len(sub) + 1) : SubSeq(s, i, i + Len(sub) - 1) = sub

\* C7: when the version query's output holds "vboxdrv" anywhere, Version
\* returns an error and no version, also when the output starts with a
\* version number; CreateSATAController returns that error, having run the
\* version query once and no storagectl command.
C7_SetupMarkerIsFatal ==
    (/\ verPc = "returned"
     /\ verRun.err.type = "nil"
     /\ ContainsText(verRun.stdout, sVboxdrv)) =>
        /\ verRet.err.type # "nil"
        /\ verRet.version = <<>>
        /\ verOp = "CreateSATAController" =>
              /\ sataRet = verRet.err
              /\ verIssued = << <<sDashVersion>> >>

\* the marker after a version number that would parse
C7_Witness ==
    /\ verPc = "returned"
    /\ verOp = "CreateSATAController"
    /\ verRun.err.type = "nil"
    /\ verRun.stdout = <<"4", ".", "3", ".", "0", "\n">> \o sWarnDrv
    /\ sataRet.type # "nil"

\* the length of the longest leading run of digits and dots of s
LeadingRunLength(s) ==
    CHOOSE k \in 0..Len(s) :
        /\ \A i \in 1..k : s[i] = "." \/ s[i] \in Digits
        /\ k < Len(s) => ~(s[k + 1] = "." \/ s[k + 1] \in Digits)

\* C8: for an output without the setup marker (taken without its leading
\* and trailing white space), Version returns the leading run of digits
\* and dots, whatever follows it, and when there is no such run it returns
\* no version and an error whose message holds the output.
C8_VersionIsLeadingRun ==
    (/\ verPc = "returned"
     /\ verRun.err.type = "nil"
     /\ ~ContainsText(verRun.stdout, sVboxdrv)) =>
        LET out == Trimmed(verRun.stdout)
            k == LeadingRunLength(out)
        IN  IF k >= 1
            THEN verRet = [version |-> SubSeq(out, 1, k), err |-> NoErr]
            ELSE /\ verRet.version = <<>>
                 /\ verRet.err.type # "nil"
                 /\ ContainsText(verRet.err.msg, out)

\* "4.3.0_RC1" yields "4.3.0"
C8_Witness ==
    /\ verPc = "returned"
    /\ verOp = "Version"
    /\ verRun.err.type = "nil"
    /\ verRun.stdout = <<"4", ".", "3", ".", "0">> \o sRC1
    /\ verRet.version = <<"4", ".", "3", ".", "0">>

DigitOf ==
    [c \in Digits |->
        CASE c = "0" -> 0 [] c = "1" -> 1 [] c = "2" -> 2 [] c = "3" -> 3
          [] c = "4" -> 4 [] c = "5" -> 5 [] c = "6" -> 6 [] c = "7" -> 7
          [] c = "8" -> 8 [] c = "9" -> 9]

\* the number a run of digits denotes
NumValue(t) ==
    LET val[i \in 0..Len(t)] == IF i = 0 THEN 0 ELSE val[i - 1] * 10 + DigitOf[t[i]]
    IN  val[Len(t)]

\* v is numbers separated by single dots
IsDotted(v) ==
    /\ v # <<>>
    /\ \A i \in 1..Len(v) : v[i] = "." \/ v[i] \in Digits
    /\ v[1] # "." /\ v[Len(v)] # "."
    /\ \A i \in 1..(Len(v) - 1) : ~(v[i] = "." /\ v[i + 1] = ".")

\* the k-th dot segment of a dotted v, as a number; 0 when v has fewer
SegmentValue(v, k) ==
    LET at == {i \in 1..Len(v) :
                 /\ v[i] # "."
                 /\ Cardinality({j \in 1..i : v[j] = "."}) = k - 1}
    IN  IF at = {} THEN 0
        ELSE NumValue(SubSeq(v, CHOOSE i \in at : \A j \in at : i <= j,
                                CHOOSE i \in at : \A j \in at : i >= j))

Below43(v) ==
    \/ SegmentValue(v, 1) < 4
    \/ SegmentValue(v, 1) = 4 /\ SegmentValue(v, 2) < 3

\* t is the decimal text of n
IsDecimalOf(t, n) ==
    /\ t # <<>>
    /\ \A i \in 1..Len(t) : t[i] \in Digits
    /\ Len(t) > 1 => t[1] # "0"
    /\ NumValue(t) = n

\* C9: for a resolved version of dotted numbers, CreateSATAController runs
\* storagectl with "--sataportcount" when the version is below 4.3, taken
\* number by number, and with "--portcount" otherwise; the flag is followed
\* by the port count in decimal.
C9_PortCountFlagByVersion ==
    (/\ verPc = "returned"
     /\ verOp = "CreateSATAController"
     /\ verRet.err.type = "nil"
     /\ IsDotted(verRet.version)) =>
        /\ Len(verIssued) = 2
        /\ Len(verIssued[2]) = 8
        /\ SubSeq(verIssued[2], 1, 6) =
              <<sStoragectl, sVm, sDashName, sCtl, sDashAdd, sSata>>
        /\ verIssued[2][7] =
              IF Below43(verRet.version) THEN sSataPortCount ELSE sPortCount
        /\ IsDecimalOf(verIssued[2][8], sataPortCount)

\* version 4.10 is not below 4.3
C9_Witness ==
    /\ verPc = "returned"
    /\ verOp = "CreateSATAController"
    /\ verRet.version = <<"4", ".", "1", "0">>
    /\ Len(verIssued) = 2
    /\ verIssued[2][7] = sPortCount
    /\ sataPortCount = 12

\* s has a line (the text between two line feeds, or an end of s) that is
\* t followed by carriage returns only
HasLine(s, t) ==
    \E i \in 1..(Len(s) + 1), j \in 0..Len(s) :
        /\ i = 1 \/ s[i - 1] = "\n"
        /\ j = Len(s) \/ s[j + 1] = "\n"
        /\ j - i + 1 >= Len(t)
        /\ \A k \in i..j : s[k] # "\n"
        /\ SubSeq(s, i, i + Len(t) - 1) = t
        /\ \A k \in (i + Len(t))..j : s[k] = "\r"

\* C10: when the query succeeds, IsRunning returns true exactly when a line
\* of the output, without its trailing carriage returns, is
\* VMState="running", VMState="stopping" or VMState="paused"; it returns
\* no error.
C10_RunningIffStateLine ==
    (infoPc = "returned" /\ infoRun.err.type = "nil") =>
        /\ infoRet.err = NoErr
        /\ infoRet.running <=>
              \/ HasLine(infoRun.stdout, sStateRunning)
              \/ HasLine(infoRun.stdout, sStateStopping)
              \/ HasLine(infoRun.stdout, sStatePaused)

\* a paused VM reported on the second line, with a carriage return
C10_Witness ==
    /\ infoPc = "returned"
    /\ infoRun.err.type = "nil"
    /\ infoRun.stdout = sNameLine \o <<"\n">> \o sStatePaused \o <<"\r", "\r", "\n">>
    /\ infoRet.running

\* the Name and UUID records scanned, in listing order
NameRecords == SelectSeq(snapLines, LAMBDA l : l.kind = "Name")
UUIDRecords == SelectSeq(snapLines, LAMBDA l : l.kind = "UUID")

\* the listing scanned holds Name and UUID records only
RecordsOnly ==
    /\ snapSkipped = 0
    /\ \A i \in 1..Len(snapLines) : snapLines[i].kind \in {"Name", "UUID"}

\* path p without its last segment
ParentPath(p) == SubSeq(p, 1, Len(p) - 1)

\* C1: for a well-formed listing the tree returned has one node per Name
\* record, the first being the root; every other node is a child of the
\* node whose path is its own path without the last segment, and of no
\* other; children come in listing order; every node has the name and
\* the UUID of its own records.
C1_TreeMatchesListing ==
    (/\ snapPc = "returned"
     /\ snapRun.listing
     /\ RecordsOnly
     /\ Len(NameRecords) >= 1) =>
        LET n == Len(NameRecords) IN
        /\ snapRet = [sn |-> 1, err |-> NoErr]
        /\ Len(nodes) = n
        /\ \A k \in 1..n :
              /\ nodes[k].Name = NameRecords[k].value
              /\ nodes[k].UUID = UUIDRecords[k].value
              /\ \A i \in 1..(Len(nodes[k].Children) - 1) :
                    nodes[k].Children[i] < nodes[k].Children[i + 1]
        /\ \A k \in 2..n, j \in 1..n :
              (\E i \in 1..Len(nodes[j].Children) : nodes[j].Children[i] = k)
                  <=> NameRecords[j].path = ParentPath(NameRecords[k].path)
        /\ \A j \in 1..n : \A i \in 1..Len(nodes[j].Children) : nodes[j].Children[i] # 1

\* C2: when the tool succeeds and its trimmed output is the text "This
\* machine does not have any snapshots", LoadSnapshots does not abort and
\* returns no tree and no error, having made no node, and HasSnapshots
\* returns false and no error.
C2_SentinelGivesNoTree ==
    (/\ snapPc # "idle"
     /\ snapPanic # "empty vmName"
     /\ snapRun.err.type = "nil"
     /\ snapRun.stderr = <<>>
     /\ ~snapRun.listing
     /\ Trimmed(snapRun.stdout) = sNoSnapshots) =>
        /\ snapPc # "panic"
        /\ nodes = <<>>
        /\ snapPc = "returned" =>
              /\ snapRet = [sn |-> Nil, err |-> NoErr]
              /\ snapOp = "HasSnapshots" => hasRet = [has |-> FALSE, err |-> NoErr]

\* HasSnapshots on an output that is the sentinel between white space
C2_Witness ==
    /\ snapPc = "returned"
    /\ snapOp = "HasSnapshots"
    /\ snapRun.err.type = "nil"
    /\ snapRun.stdout = <<" ">> \o sNoSnapshots \o <<"\n">>
    /\ hasRet = [has |-> FALSE, err |-> NoErr]

\* s has a line that starts with t
HasLineStarting(s, t) ==
    \E i \in 1..Len(s) :
        /\ i = 1 \/ s[i - 1] = "\n"
        /\ i + Len(t) - 1 <= Len(s)
        /\ SubSeq(s, i, i + Len(t) - 1) = t

sVMStateKey == <<"V", "M", "S", "t", "a", "t", "e", "=">>

\* C11: when the query succeeds but its output has nothing of the expected
\* pattern, the operation returns an error and not a default value: Version
\* for an output without a leading version number, Iso for an output
\* without a "Default Guest Additions ISO:" line, IsRunning for an output
\* without a VMState line.
C11_ParseFailureIsError ==
    /\ (/\ verPc = "returned"
        /\ verRun.err.type = "nil"
        /\ LeadingRunLength(Trimmed(verRun.stdout)) = 0) =>
           verRet.err.type # "nil"
    /\ (/\ isoPc = "returned"
        /\ isoRun.err.type = "nil"
        /\ ~ContainsText(isoRun.stdout, sIsoLabel)) =>
           isoRet.err.type # "nil"
    /\ (/\ infoPc = "returned"
        /\ infoRun.err.type = "nil"
        /\ ~HasLineStarting(infoRun.stdout, sVMStateKey)) =>
           infoRet.err.type # "nil"

\* the error the snapshot operation called has returned
SnapshotOpErr ==
    IF snapOp = "HasSnapshots" THEN hasRet.err
    ELSE IF snapOp \in {"LoadSnapshots", "GetCurrentSnapshot"} THEN snapRet.err
    ELSE cmdRet

\* C12: a snapshot operation called with an empty VM name, or SetSnapshot
\* or DeleteSnapshot called with no snapshot, does not abort: it returns an
\* error to its caller, and it runs no command of the tool.
C12_BadArgumentIsError ==
    (/\ snapPc # "idle"
     /\ \/ snapVm = <<>>
        \/ snapOp \in {"SetSnapshot", "DeleteSnapshot"} /\ snapArg = Nil) =>
        /\ snapPc = "returned"
        /\ SnapshotOpErr.type # "nil"
        /\ snapIssued = <<>>

\* C13: Stop runs the power-off command first and nothing else; when the
\* command fails Stop returns its error; when it succeeds Stop returns
\* success, and not before 2 seconds have passed since the command
\* returned.  No unregister attempt of a Delete that follows Stop is made
\* while Stop has not returned, so the first attempt after a successful
\* Stop starts 2 seconds or more after the power-off.
C13_StopGraceBeforeDelete ==
    /\ stopPc # "idle" => stopIssued = << <<sControlvm, sVm, sPoweroff>> >>
    /\ stopPc \in {"poweroff", "sleep"} => delPc = "idle" /\ delLog = <<>>
    /\ stopPc = "sleep" => stopCmdErr.type = "nil"
    /\ stopPc = "returned" =>
          IF stopCmdErr.type = "nil"
          THEN stopRet.type = "nil" /\ now >= stopOffAt + 2
          ELSE stopRet = stopCmdErr
    /\ (delPc # "idle" /\ stopRet.type = "nil") => now >= stopOffAt + 2

\* the first unregister attempt is about to start, at the very end of the
\* grace period
C13_Witness ==
    /\ stopPc = "returned"
    /\ stopRet.type = "nil"
    /\ stopOffAt = 1
    /\ now = 3
    /\ delPc = "try"
    /\ delLog = <<>>

\* C14: while a listing is parsed, once a Name record has been processed
\* the tracked depth (the number of "-" of the tracked path indicator) is
\* the depth of the last Name record processed, whether it is deeper than
\* the Name record before it, as deep, or less deep.
C14_DepthIsLastNameDepth ==
    (/\ snapRun.listing
     /\ snapPc \in {"scan", "returned"}
     /\ Len(NameRecords) >= 1) =>
        Len(currentIndicator) = Len(NameRecords[Len(NameRecords)].path)

\* node k is in the Children of node j
IsChildOf(k, j) == \E i \in 1..Len(nodes[j].Children) : nodes[j].Children[i] = k

\* C15: while a listing is parsed there is no root before the first Name
\* record is processed; from then on the root is the node that record
\* created, whatever records follow, and every other node created is a
\* child of one node created before it, the root being no node's child.
C15_AtMostOneRoot ==
    (snapRun.listing /\ snapPc # "idle") =>
        /\ Len(NameRecords) = 0 => rootNode = Nil /\ nodes = <<>>
        /\ Len(NameRecords) >= 1 =>
              /\ rootNode = 1
              /\ Len(nodes) >= 1
              /\ nodes[1].Name = NameRecords[1].value
              /\ \A j \in 1..Len(nodes) : ~IsChildOf(1, j)
              /\ \A k \in 2..Len(nodes) :
                    /\ \E j \in 1..(k - 1) : IsChildOf(k, j)
                    /\ Cardinality({j \in 1..Len(nodes) : IsChildOf(k, j)}) = 1

\* a tree of four nodes returned, from a listing with a current-snapshot
\* line and a line without '='
C15_Witness ==
    /\ snapPc = "returned"
    /\ snapRun.listing
    /\ Len(nodes) = 4
    /\ snapSkipped = 1
    /\ \E i \in 1..Len(snapLines) : snapLines[i].kind = "Current"
    /\ rootNode = 1
    /\ snapRet.sn = 1

\* the last record scanned
LastRecord == snapLines[Len(snapLines)]

\* C16: the step that processes a UUID record gives the record's value to
\* the UUID of the node created last and changes nothing else: not the
\* tracked path indicator, the stack, the root or the current node, not
\* the number of nodes, nor the name, children, current flag of any node,
\* nor the UUID of any other node; and the parse goes on.
C16_UUIDRecordFrame ==
    [][(/\ snapPc = "scan"
        /\ snapRun.listing
        /\ Len(snapLines') = Len(snapLines) + 1
        /\ LastRecord'.kind = "UUID") =>
           /\ snapPc' = "scan"
           /\ currentIndicator' = currentIndicator
           /\ parentStack' = parentStack
           /\ rootNode' = rootNode
           /\ node' = node
           /\ node = Len(nodes)
           /\ Len(nodes') = Len(nodes)
           /\ \A k \in 1..Len(nodes) :
                 /\ nodes'[k].Name = nodes[k].Name
                 /\ nodes'[k].Children = nodes[k].Children
                 /\ nodes'[k].IsCurrent = nodes[k].IsCurrent
                 /\ nodes'[k].UUID =
                       IF k = Len(nodes) THEN LastRecord'.value ELSE nodes[k].UUID]_vars

\* the UUID record of the third node has been processed, the root being
\* flagged current
C16_Witness ==
    /\ snapPc = "scan"
    /\ snapRun.listing
    /\ Len(snapLines) >= 1
    /\ LastRecord.kind = "UUID"
    /\ Len(nodes) = 3
    /\ nodes[3].UUID = <<"u", "3">>
    /\ nodes[2].UUID = <<"u", "2">>
    /\ nodes[1].IsCurrent
    /\ parentStack = <<1, 2>>

\* the nodes flagged current
Flagged(ns) == {k \in 1..Len(ns) : ns[k].IsCurrent}

\* every current-snapshot line scanned comes after the last Name record
MarkersFollowNames ==
    \A i, j \in 1..Len(snapLines) :
        (snapLines[i].kind = "Current" /\ snapLines[j].kind = "Name") => j < i

\* C17: the step that processes a line with the current-snapshot marker,
\* a Name record having been processed, flags the node created last and
\* changes nothing else; no other step of a parse flags a node, and none
\* clears a flag; so when the marker lines of a listing all follow its last
\* Name record, the tree returned has one flagged node, the last one.
C17_MarkerFlagsLastNode ==
    /\ [][(/\ snapPc = "scan"
            /\ snapRun.listing
            /\ Len(snapLines') = Len(snapLines) + 1
            /\ LastRecord'.kind = "Current"
            /\ nodes # <<>>) =>
               /\ snapPc' = "scan"
               /\ currentIndicator' = currentIndicator
               /\ parentStack' = parentStack
               /\ rootNode' = rootNode
               /\ node' = node
               /\ Len(nodes') = Len(nodes)
               /\ Flagged(nodes') = Flagged(nodes) \cup {Len(nodes)}
               /\ \A k \in 1..Len(nodes) :
                     /\ nodes'[k].Name = nodes[k].Name
                     /\ nodes'[k].UUID = nodes[k].UUID
                     /\ nodes'[k].Children = nodes[k].Children]_vars
    /\ [][(/\ snapPc = "scan"
            /\ snapRun.listing
            /\ ~(Len(snapLines') = Len(snapLines) + 1 /\ LastRecord'.kind = "Current")) =>
               Flagged(nodes') = Flagged(nodes)]_vars
    /\ []((/\ snapPc = "returned"
            /\ snapRun.listing
            /\ MarkersFollowNames
            /\ \E i \in 1..Len(snapLines) : snapLines[i].kind = "Current") =>
               (Flagged(nodes) = {Len(nodes)} /\ Len(nodes) >= 1))

\* a tree of three nodes returned, the marker line being the last line
C17_Witness ==
    /\ snapPc = "returned"
    /\ snapRun.listing
    /\ Len(nodes) = 3
    /\ LastRecord.kind = "Current"
    /\ Flagged(nodes) = {3}
    /\ snapRet.sn = 1

\* the parser state after the records in lines, from state p
RECURSIVE ParseLines(_, _)
ParseLines(p, lines) ==
    IF lines = <<>> \/ p.panic # "none" THEN p
    ELSE ParseLines(ProcessLine(p, Head(lines)), Tail(lines))

\* C18: the step that scans a line without '=' changes neither the root,
\* the current node, the tracked path indicator, the stack nor any node,
\* and the parse goes on; so at every point of a parse the parser is where
\* the same lines without those lines lead it, and the tree returned is
\* the tree of the listing without them.
C18_LineWithoutEqIsSkipped ==
    /\ [][(/\ snapPc = "scan"
            /\ snapRun.listing
            /\ snapSkipped' = snapSkipped + 1) =>
               /\ snapPc' = "scan"
               /\ snapPanic' = "none"
               /\ rootNode' = rootNode
               /\ node' = node
               /\ currentIndicator' = currentIndicator
               /\ parentStack' = parentStack
               /\ nodes' = nodes]_vars
    /\ []((snapRun.listing /\ snapPc # "idle") =>
              LET q == ParseLines(NoParse, snapLines)
              IN  /\ nodes = q.nodes
                  /\ rootNode = q.rootNode
                  /\ node = q.node
                  /\ currentIndicator = q.currentIndicator
                  /\ parentStack = q.parentStack
                  /\ snapPanic = q.panic
                  /\ snapPc = "returned" => snapRet = [sn |-> q.rootNode, err |-> NoErr])

\* a tree of three nodes returned from a listing with a line without '='
C18_Witness ==
    /\ snapPc = "returned"
    /\ snapRun.listing
    /\ snapSkipped = 1
    /\ Len(nodes) = 3
    /\ nodes[3].UUID # <<>>
    /\ snapRet.sn = 1

\* C19: of two invocations made in any interleaving on one driver, each
\* returns what it returns when it is made alone for the same subprocess:
\* the trimmed stdout of its own subprocess, and the error or success that
\* its own subprocess's exit and stderr give; the tool path, the one thing
\* the invocations share, is never changed.
C19_InterleavedInvocationsIndependent ==
    /\ VBoxManagePath = sVBoxManage
    /\ \A i \in Invocations :
          invPc[i] = "returned" =>
              /\ invRet[i].out = Trimmed(invRun[i].stdout)
              /\ invRet[i] = VBoxManageWithOutput(invRun[i])
              /\ invRun[i].err.type = "ExitError" =>
                    invRet[i].err.msg = sErrPrefix \o Trimmed(invRun[i].stderr)

\* the first invocation has failed with its own stderr while the second,
\* whose subprocess succeeds, was in progress and still is, its stdout
\* written
C19_Witness ==
    /\ invPc[1] = "returned"
    /\ invOverlap[1]
    /\ invRun[1].err.type = "ExitError"
    /\ invRet[1].err.type # "nil"
    /\ invPc[2] = "run"
    /\ invRun[2].err.type = "nil"
    /\ buffers[2].stdout = sOk

\* path q may follow path p in a pre-order listing where the depth grows
\* by one at most: q is p's first child, or the next sibling of p or of one
\* of p's ancestors
FollowsInPreOrder(p, q) ==
    /\ Len(q) >= 1
    /\ Len(q) <= Len(p) + 1
    /\ \A i \in 1..(Len(q) - 1) : q[i] = p[i]
    /\ q[Len(q)] = IF Len(q) = Len(p) + 1 THEN 1 ELSE p[Len(q)] + 1

\* the lines scanned are the start of a well-formed listing: one root, the
\* Name records in pre-order, no current-snapshot line before the first
\* Name record
WellFormedListing ==
    /\ Len(snapLines) >= 1 => snapLines[1].kind = "Name"
    /\ Len(NameRecords) >= 1 => NameRecords[1].path = <<>>
    /\ \A k \in 1..(Len(NameRecords) - 1) :
          FollowsInPreOrder(NameRecords[k].path, NameRecords[k + 1].path)

\* C20: the parse of a well-formed listing does not abort: whenever the
\* top of the stack is read for the parent of a Name record after the
\* root, the stack is not empty.
C20_WellFormedNeverAborts ==
    (snapRun.listing /\ snapPc # "idle" /\ WellFormedListing) =>
        /\ snapPc # "panic"
        /\ snapPanic = "none"

===========================================================================
